---------------------------- MODULE Spec2Model ----------------------------
(***************************************************************************)
(* Model of the `computer` tool of computer-use-mcp                        *)
(* (src/src/utils/schema.ts, lines 73-441: the tool handler, the scale     *)
(* derivation and the screenshot compositor).                              *)
(*                                                                         *)
(* Numbers.  The handler computes with IEEE doubles.  A scale factor s is  *)
(* kept here exactly, as the fraction s^2 = n/d, so that                   *)
(* Math.sqrt(maxPixels / totalPixels) is represented without rounding;     *)
(* Math.round and Math.floor of a product are then decided by integer      *)
(* comparisons of fractions (LeqFrac), which never leave 32 bits.  The     *)
(* exact value and the double can differ only where the exact product is   *)
(* an integer or a half; on the inputs below the two agree.                *)
(*                                                                         *)
(* Control.  The handler is an async function: each action below is one    *)
(* awaited native call together with the synchronous code that follows it  *)
(* up to the next await.  The native input backend (nut-js) is write-only  *)
(* for the handler apart from the pointer position, so the keyboard and    *)
(* button state is the sequence of calls made (f.calls).                   *)
(*                                                                         *)
(* Specifications.  Spec: one client, every request of the input set, the  *)
(* display and the pointer changing only between requests.                 *)
(* SpecConcurrent: two HTTP sessions (src/src/main.ts) whose handlers      *)
(* interleave at their awaits.  SpecHistory: one client, with the screen   *)
(* size the previous request read kept as a history variable.  SpecSchema: *)
(* strictSchemaWithAliases (schema.ts 10-35) applied to argument objects.  *)
(* SpecClient: one client that sends back, as coordinates, what it was     *)
(* sent (history variable seen).  SpecResize: the display reconfigured     *)
(* while a request is suspended at an await.                               *)
(***************************************************************************)
EXTENDS Integers, Sequences, FiniteSets, TLC

Abs(x) == IF x < 0 THEN -x ELSE x
Max(a, b) == IF a >= b THEN a ELSE b
Min(a, b) == IF a <= b THEN a ELSE b

(***************************************************************************)
(* Exact arithmetic on scale factors                                       *)
(***************************************************************************)

(* a/b <= c/d for a, c >= 0 and b, d > 0, by the continued-fraction        *)
(* expansion of both sides (no product is formed).                         *)
RECURSIVE LeqFrac(_, _, _, _)
LeqFrac(a, b, c, d) ==
    LET qa == a \div b
        qc == c \div d
        ra == a % b
        rc == c % d
    IN  IF qa # qc THEN qa < qc
        ELSE IF ra = 0 THEN TRUE
        ELSE IF rc = 0 THEN FALSE
        ELSE LeqFrac(d, rc, b, ra)

(* Scale factors q, r as fractions of their squares.                       *)
ScaleLeq(q, r) == LeqFrac(q.n, q.d, r.n, r.d)
ScaleEq(q, r) == ScaleLeq(q, r) /\ ScaleLeq(r, q)
ScaleLt(q, r) == ~ScaleLeq(r, q)
One == [n |-> 1, d |-> 1]
Inverse(q) == [n |-> q.d, d |-> q.n]

(* The least k >= 1 with k^2 >= q (an upper bound of sqrt(q) for bisection).*)
RECURSIVE CeilRoot(_, _)
CeilRoot(q, k) == IF LeqFrac(q.n, q.d, k * k, 1) THEN k ELSE CeilRoot(q, k + 1)

(* The largest m in lo..hi with m <= t * sqrt(q), for t > 0.               *)
RECURSIVE Bisect(_, _, _, _)
Bisect(lo, hi, t, q) ==
    IF lo >= hi THEN lo
    ELSE LET mid == (lo + hi + 1) \div 2
         IN  IF LeqFrac(mid * mid, t * t, q.n, q.d)
             THEN Bisect(mid, hi, t, q)
             ELSE Bisect(lo, mid - 1, t, q)

(* floor(t * sqrt(q)) and ceil(t * sqrt(q)) for t >= 0.                    *)
FloorRoot(t, q) == IF t = 0 THEN 0 ELSE Bisect(0, t * CeilRoot(q, 1), t, q)
CeilOfRoot(t, q) ==
    LET m == FloorRoot(t, q)
    IN  IF t = 0 \/ LeqFrac(q.n, q.d, m * m, t * t) THEN m ELSE m + 1

(* Math.floor(c * s) where s = sqrt(q).                                    *)
MathFloorMul(c, q) == IF c >= 0 THEN FloorRoot(c, q) ELSE -CeilOfRoot(-c, q)

(* Math.round(c * s) where s = sqrt(q): floor(c * s + 1/2), ties upward.   *)
MathRoundMul(c, q) ==
    IF c >= 0 THEN (FloorRoot(2 * c, q) + 1) \div 2
    ELSE -(CeilOfRoot(2 * (-c), q) \div 2)

(***************************************************************************)
(* Vision limits and the scale derivation                                  *)
(***************************************************************************)
maxLongEdge == 1568
(* maxPixels = 1.15 * 1024 * 1024 = 1205862.4 = maxPixelsNum / maxPixelsDen *)
maxPixelsNum == 6029312
maxPixelsDen == 5

(* Faulty variants: one of the two limits is forgotten.                    *)
getSizeToApiScale_longEdgeOnly(width, height) ==
    LET longEdge == Max(width, height)
    IN  IF longEdge > maxLongEdge
        THEN [n |-> maxLongEdge * maxLongEdge, d |-> longEdge * longEdge]
        ELSE One
getSizeToApiScale_pixelsOnly(width, height) ==
    IF width * height * maxPixelsDen > maxPixelsNum
    THEN [n |-> maxPixelsNum, d |-> maxPixelsDen * width * height]
    ELSE One

getSizeToApiScale(width, height) ==
    LET longEdge == Max(width, height)
        totalPixels == width * height
        longEdgeScale == IF longEdge > maxLongEdge
                         THEN [n |-> maxLongEdge * maxLongEdge, d |-> longEdge * longEdge]
                         ELSE One
        pixelScale == IF totalPixels * maxPixelsDen > maxPixelsNum
                      THEN [n |-> maxPixelsNum, d |-> maxPixelsDen * totalPixels]
                      ELSE One
    IN  IF ScaleLeq(longEdgeScale, pixelScale) THEN longEdgeScale ELSE pixelScale


(***************************************************************************)
(* Strings.  A string is the sequence of its characters, so that split,    *)
(* parseInt and toLowerCase are modelled by what they do.  An optional     *)
(* value is the empty tuple (absent) or a one-element tuple (present).     *)
(***************************************************************************)
Nothing == <<>>
Some(v) == <<v>>
IsSome(o) == o # <<>>
The(o) == o[1]

Digits == <<"0", "1", "2", "3", "4", "5", "6", "7", "8", "9">>
UpperCase == <<"A", "B", "C", "D", "E", "F", "G", "H", "I", "J", "K", "L", "M",
               "N", "O", "P", "Q", "R", "S", "T", "U", "V", "W", "X", "Y", "Z">>
LowerCase == <<"a", "b", "c", "d", "e", "f", "g", "h", "i", "j", "k", "l", "m",
               "n", "o", "p", "q", "r", "s", "t", "u", "v", "w", "x", "y", "z">>

IsDigit(ch) == \E i \in 1..10 : Digits[i] = ch
DigitValue(ch) == (CHOOSE i \in 1..10 : Digits[i] = ch) - 1

(* String.prototype.toLowerCase                                            *)
LowerChar(ch) ==
    IF \E i \in 1..26 : UpperCase[i] = ch
    THEN LowerCase[CHOOSE i \in 1..26 : UpperCase[i] = ch]
    ELSE ch
toLowerCase(str) == [i \in 1..Len(str) |-> LowerChar(str[i])]

(* String.prototype.split(sep) for a one-character separator: the pieces   *)
(* between separators, in order (an empty string gives one empty piece).   *)
RECURSIVE SplitFrom(_, _, _, _)
SplitFrom(str, sep, i, piece) ==
    IF i > Len(str) THEN <<piece>>
    ELSE IF str[i] = sep THEN <<piece>> \o SplitFrom(str, sep, i + 1, <<>>)
    ELSE SplitFrom(str, sep, i + 1, Append(piece, str[i]))
split(str, sep) == SplitFrom(str, sep, 1, <<>>)

(* parseInt(str, 10): leading blanks skipped, an optional sign, then the   *)
(* longest run of digits; NaN (Nothing here) when that run is empty.       *)
RECURSIVE SkipBlanks(_, _)
SkipBlanks(str, i) == IF i <= Len(str) /\ str[i] = " " THEN SkipBlanks(str, i + 1) ELSE i
RECURSIVE DigitRun(_, _, _)
DigitRun(str, i, acc) ==
    IF i <= Len(str) /\ IsDigit(str[i])
    THEN DigitRun(str, i + 1, 10 * acc + DigitValue(str[i]))
    ELSE acc
parseInt(str) ==
    LET i == SkipBlanks(str, 1)
        signed == i <= Len(str) /\ str[i] \in {"-", "+"}
        j == IF signed THEN i + 1 ELSE i
    IN  IF j > Len(str) \/ ~IsDigit(str[j]) THEN Nothing
        ELSE IF signed /\ str[i] = "-" THEN Some(-DigitRun(str, j, 0))
        ELSE Some(DigitRun(str, j, 0))

(***************************************************************************)
(* Key chords (xdotoolStringToKeys).  The segments of "a+b+c" are resolved *)
(* in order: a modifier alias (case-insensitive), a named key, or a single *)
(* printable character.                                                    *)
(***************************************************************************)
ModifierNames ==
    { <<"c", "t", "r", "l">>, <<"a", "l", "t">>, <<"s", "h", "i", "f", "t">>,
      <<"s", "u", "p", "e", "r">>, <<"m", "e", "t", "a">> }
NamedKeys ==
    { <<"D", "e", "l", "e", "t", "e">>, <<"R", "e", "t", "u", "r", "n">>,
      <<"E", "s", "c", "a", "p", "e">>, <<"T", "a", "b">> }
KeyResolves(segment) ==
    \/ toLowerCase(segment) \in ModifierNames
    \/ segment \in NamedKeys
    \/ Len(segment) = 1
(* The key symbol of a resolved segment: modifiers by their lower-case     *)
(* alias, the others as written.                                           *)
KeySymbol(segment) ==
    IF toLowerCase(segment) \in ModifierNames THEN toLowerCase(segment) ELSE segment
(* toKeys(text): the ordered key symbols, or Nothing when a segment does   *)
(* not resolve (UnknownKeySymbol).                                         *)
toKeys(text) ==
    LET segments == split(text, "+")
    IN  IF \A i \in 1..Len(segments) : KeyResolves(segments[i])
        THEN Some([i \in 1..Len(segments) |-> KeySymbol(segments[i])])
        ELSE Nothing


(***************************************************************************)
(* strictSchemaWithAliases (schema.ts 10-35)                               *)
(***************************************************************************)
(* The arguments of a call are a value that is an object or not; an object *)
(* is the sequence of its entries <<key, value>> in the order Object.keys  *)
(* enumerates them (insertion order), no key twice.  An alias map is a     *)
(* function from alias to canonical name.  A shape is the set of its keys  *)
(* and the set of those that are not optional.                             *)
KeysOf(entries) == { entries[i][1] : i \in 1..Len(entries) }
ValueOf(entries, key) == entries[CHOOSE i \in 1..Len(entries) : entries[i][1] = key][2]
NotAnObject == [isObject |-> FALSE, entries |-> <<>>]
Object(entries) == [isObject |-> TRUE, entries |-> entries]

(* Line 26: aliases[key] ?? key.                                           *)
CanonicalKey(aliases, key) == IF key \in DOMAIN aliases THEN aliases[key] ELSE key

(* Lines 25-31: the loop over Object.keys(input), from entry i on.         *)
RECURSIVE BuildResult(_, _, _, _)
BuildResult(aliases, input, i, result) ==
    IF i > Len(input) THEN result
    ELSE LET canonicalKey == CanonicalKey(aliases, input[i][1])
         IN  BuildResult(aliases, input, i + 1,
                         IF canonicalKey \in KeysOf(result)
                         THEN result
                         ELSE Append(result, <<canonicalKey, input[i][2]>>))

(* Lines 16-34: the function given to z.preprocess.                        *)
preprocess(aliases, args) ==
    IF ~args.isObject THEN args ELSE Object(BuildResult(aliases, args.entries, 1, <<>>))

(* Line 14: z.object(shape).strict(): an object with no key outside the    *)
(* shape and every required key.  (The values are opaque here: each is     *)
(* taken to be of its key's type.)                                         *)
objectSchema(shape, value) ==
    /\ value.isObject
    /\ KeysOf(value.entries) \subseteq shape.keys
    /\ shape.required \subseteq KeysOf(value.entries)

NoAliases == [key \in {} |-> ""]

(***************************************************************************)
(* Inputs                                                                  *)
(***************************************************************************)
(* Pointer positions the environment leaves the pointer at are sampled up  *)
(* to this distance from the screen's corners.                             *)
CornerBand == 5

Sessions == {"s1", "s2"}

(* Displays: logical size and the capture device's pixels per logical      *)
(* pixel (screen.grab() "may be at Retina resolution").                    *)
Displays ==
    { [width |-> 800,  height |-> 600,  ratio |-> 1],
      [width |-> 1920, height |-> 1080, ratio |-> 1],
      [width |-> 3840, height |-> 2160, ratio |-> 1],
      [width |-> 3440, height |-> 1440, ratio |-> 1],
      [width |-> 5120, height |-> 2880, ratio |-> 1],
      [width |-> 1440, height |-> 900,  ratio |-> 2] }

PointerSamples(w, hgt) ==
    { <<0, 0>>, <<w - 1, 0>>, <<0, hgt - 1>>, <<w \div 2, hgt \div 2>> }
    \cup { <<k, k>> : k \in 1..CornerBand }
    \cup { <<w - 1 - k, hgt - 1 - k>> : k \in 0..CornerBand }

Actions ==
    { "key", "type", "mouse_move", "left_click", "left_click_drag", "right_click",
      "middle_click", "double_click", "scroll", "get_screenshot", "get_cursor_position" }
ClickActions == { "left_click", "right_click", "middle_click", "double_click" }

(* coordinate: z.tuple([z.number(), z.number()]).optional()                *)
CoordinateInputs ==
    { Nothing, Some(<<100, 100>>), Some(<<1525, 8>>), Some(<<0, 0>>), Some(<<-1, 5>>),
      Some(<<799, 599>>), Some(<<800, 600>>), Some(<<1463, 822>>), Some(<<1464, 823>>) }

KeyTexts ==
    { <<"a">>,
      <<"c", "t", "r", "l", "+", "c">>,
      <<"c", "t", "r", "l", "+", "a", "l", "t", "+", "D", "e", "l", "e", "t", "e">>,
      <<"F", "o", "o">> }
TypeTexts == { <<"h", "i">> }
ScrollTexts ==
    { <<"d", "o", "w", "n">>,
      <<"d", "o", "w", "n", ":", "5", "0">>,
      <<"d", "o", "w", "n", ":", "0">>,
      <<"d", "o", "w", "n", ":", "-", "5">>,
      <<"d", "o", "w", "n", ":">>,
      <<"d", "o", "w", "n", ":", "5", "x">>,
      <<"d", "o", "w", "n", ":", "1", ".", "5">>,
      <<"d", "o", "w", "n", ":", "5", ":", "7">>,
      <<"d", "o", "w", "n", ":", "x">>,
      <<"U", "p", ":", "3">>,
      <<"l", "e", "f", "t">>,
      <<"R", "I", "G", "H", "T", ":", "7">>,
      <<"a", "w", "a", "y">>,
      <<"a", "w", "a", "y", ":", "0">>,
      <<":", "5">> }

(* text: z.string().optional(); the empty string is a string.              *)
TextInputs(action) ==
    {Nothing, Some(<<>>)} \cup
    { Some(t) : t \in CASE action = "key" -> KeyTexts
                        [] action = "type" -> TypeTexts
                        [] action = "scroll" -> ScrollTexts
                        [] OTHER -> {} }

Requests ==
    UNION { [action : {a}, coordinate : CoordinateInputs, text : TextInputs(a)] : a \in Actions }

(* Argument objects given to a schema have at most this many keys.         *)
MaxArgs == 3

(* The shape of the tool's input (lines 178-184) and the arguments tried   *)
(* against it: with no alias map, as the tool is registered, and with one  *)
(* that lets "txt" stand for "text".                                       *)
computerShape == [keys |-> {"action", "coordinate", "text"}, required |-> {"action"}]
AliasMaps == { NoAliases, [txt |-> "text"] }
ArgKeys == { "action", "text", "txt", "bogus" }
ArgValues == { "a", "b" }
ArgEntries ==
    UNION { { e \in [1..n -> ArgKeys \X ArgValues] :
                \A i, j \in 1..n : i # j => e[i][1] # e[j][1] } : n \in 0..MaxArgs }
Arguments == {NotAnObject} \cup { Object(e) : e \in ArgEntries }


(***************************************************************************)
(* State                                                                   *)
(***************************************************************************)
VARIABLES
    display,    \* the live display: what screen.width(), screen.height(), screen.grab() answer
    pointer,    \* the live pointer position, logical space: mouse.getPosition()
    h,          \* per session, the frame of the handler invocation it is running
    lastSize,   \* history: the logical screen size the last answered request read
    parse,      \* an application of a strictSchemaWithAliases schema to arguments
    seen        \* history: the last result the client was sent, and the pointer position then read

vars == <<display, pointer, h, lastSize, parse, seen>>

NoScale == [n |-> 0, d |-> 1]
NoSize == <<0, 0>>
NothingSeen == [kind |-> "none", info |-> <<>>, pos |-> Nothing]
NoParse ==
    [ pc |-> "none", shape |-> [keys |-> {}, required |-> {}], aliases |-> NoAliases,
      args |-> NotAnObject, result |-> NotAnObject, success |-> FALSE ]
NoResult == [kind |-> "none", err |-> "", field |-> "", info |-> <<>>]

(* The locals of one invocation of the handler (schema.ts 190-439).        *)
(* Unread numbers are 0 (a screen is never 0 wide), unset optionals are    *)
(* Nothing.  calls is the sequence of native backend calls it has issued,  *)
(* marker the set of pixels of the image painted with the crosshair colour.*)
IdleFrame ==
    [ pc |-> "idle", action |-> "", coordinate |-> Nothing, text |-> Nothing,
      caller |-> "", scaledCoordinate |-> Nothing,
      logicalWidth |-> 0, logicalHeight |-> 0, scale |-> NoScale,
      width |-> 0, height |-> 0,
      keys |-> <<>>, direction |-> <<>>, amount |-> 0,
      pos |-> Nothing, rawWidth |-> 0, rawHeight |-> 0, apiScaleFactor |-> NoScale,
      imageWidth |-> 0, imageHeight |-> 0, cursorInImage |-> Nothing, marker |-> {},
      calls |-> <<>>, result |-> NoResult ]

Call(op, args) == [op |-> op, args |-> args]

Ok == [kind |-> "ok", err |-> "", field |-> "", info |-> <<>>]
Failure(err, field, info) == [kind |-> "error", err |-> err, field |-> field, info |-> info]
Return(f, result) == [f EXCEPT !.pc = "done", !.result = result]
Await(f, pc) == [f EXCEPT !.pc = pc]

(* `if (!text)`: undefined and the empty string are both falsy.            *)
TextMissing(text) == ~IsSome(text) \/ The(text) = <<>>

(***************************************************************************)
(* The synchronous code of the handler, up to its next await               *)
(***************************************************************************)

(* case 'scroll', lines 300-321: the checks and the parse of the text.     *)
ScrollAmount(parts) ==
    LET amountStr == IF Len(parts) >= 2 THEN Some(parts[2]) ELSE Nothing
    IN  IF IsSome(amountStr) /\ The(amountStr) # <<>> THEN parseInt(The(amountStr)) ELSE Some(300)
(* Faulty variant: an amount of zero is let through. *)
ScrollAmountInvalid_negativeOnly(parts) ==
    /\ Len(parts) >= 2
    /\ \/ ~IsSome(ScrollAmount(parts))
       \/ The(ScrollAmount(parts)) < 0
ScrollAmountInvalid(parts) ==
    /\ Len(parts) >= 2
    /\ \/ ~IsSome(ScrollAmount(parts))
       \/ The(ScrollAmount(parts)) <= 0
EnterScroll(f) ==
    IF ~IsSome(f.scaledCoordinate)
    THEN Return(f, Failure("MissingParameter", "coordinate", <<>>))
    ELSE IF TextMissing(f.text)
    THEN Return(f, Failure("MissingParameter", "text", <<>>))
    ELSE LET parts == split(The(f.text), ":")
             direction == parts[1]
         IN  IF direction = <<>>
             THEN Return(f, Failure("ScrollDirectionRequired", "", <<>>))
             ELSE IF ScrollAmountInvalid(parts)
             THEN Return(f, Failure("InvalidScrollAmount", "", <<>>))
             ELSE [f EXCEPT !.pc = "setPosition", !.direction = direction,
                            !.amount = The(ScrollAmount(parts))]

(* case 'key', lines 212-218.                                              *)
EnterKey(f) ==
    IF TextMissing(f.text)
    THEN Return(f, Failure("MissingParameter", "text", <<>>))
    ELSE IF ~IsSome(toKeys(The(f.text)))
    THEN Return(f, Failure("UnknownKeySymbol", "", <<>>))
    ELSE [f EXCEPT !.pc = "pressKey", !.keys = The(toKeys(The(f.text)))]

(* case 'type', lines 224-229.                                             *)
EnterType(f) ==
    IF TextMissing(f.text)
    THEN Return(f, Failure("MissingParameter", "text", <<>>))
    ELSE Await(f, "type")

(* The click cases, lines 253-298: `if (scaledCoordinate)` decides whether *)
(* the pointer is moved before the click.                                  *)
(* Faulty variant: the click never moves the pointer first. *)
ClickMovesFirst_never(f) == FALSE
ClickMovesFirst(f) == IsSome(f.scaledCoordinate)
ClickCall(action) ==
    CASE action = "left_click" -> "leftClick"
      [] action = "right_click" -> "rightClick"
      [] action = "middle_click" -> "click"
      [] action = "double_click" -> "doubleClick"
EnterClick(f) ==
    IF ClickMovesFirst(f) THEN Await(f, "setPosition") ELSE Await(f, ClickCall(f.action))

(* cases 'mouse_move' (244-249) and 'left_click_drag' (262-267).           *)
EnterMouseMove(f) ==
    IF ~IsSome(f.scaledCoordinate)
    THEN Return(f, Failure("MissingParameter", "coordinate", <<>>))
    ELSE Await(f, "setPosition")
EnterDrag(f) ==
    IF ~IsSome(f.scaledCoordinate)
    THEN Return(f, Failure("MissingParameter", "coordinate", <<>>))
    ELSE Await(f, "pressButton")

(* switch (action), line 211: each case up to its first await.             *)
Dispatch(f) ==
    CASE f.action = "key" -> EnterKey(f)
      [] f.action = "type" -> EnterType(f)
      [] f.action = "get_cursor_position" -> Await(f, "getPosition")
      [] f.action = "mouse_move" -> EnterMouseMove(f)
      [] f.action \in ClickActions -> EnterClick(f)
      [] f.action = "left_click_drag" -> EnterDrag(f)
      [] f.action = "scroll" -> EnterScroll(f)
      [] f.action = "get_screenshot" -> Await(f, "setTimeout")

(* Lines 190-196: the handler is entered; `if (coordinate)` starts the     *)
(* translation, whose first await is screen.width().                       *)
Enter(request) ==
    LET f == [IdleFrame EXCEPT !.action = request.action,
                               !.coordinate = request.coordinate,
                               !.text = request.text,
                               !.scaledCoordinate = request.coordinate]
    IN  IF IsSome(request.coordinate)
        THEN [f EXCEPT !.pc = "screen.width", !.caller = "translate"]
        ELSE Dispatch(f)


(***************************************************************************)
(* The code that runs when an awaited call returns                         *)
(***************************************************************************)

(* Lines 197-200: the coordinate scaled from image space to logical space. *)
(* Faulty variant: the scaled coordinate is truncated instead of rounded. *)
ScaleCoordinate_floor(coordinate, scale) ==
    <<MathFloorMul(coordinate[1], scale), MathFloorMul(coordinate[2], scale)>>
ScaleCoordinate(coordinate, scale) ==
    <<MathRoundMul(coordinate[1], scale), MathRoundMul(coordinate[2], scale)>>

(* Lines 238-241: the pointer position in image space (get_cursor_position).*)
(* Faulty variant: the pointer position is reported in logical space. *)
CursorToImage_unscaled(pos, scale) == pos
(* Faulty variant: the reported pointer position is truncated instead of rounded. *)
CursorToImage_floor(pos, scale) ==
    <<MathFloorMul(pos[1], Inverse(scale)), MathFloorMul(pos[2], Inverse(scale))>>
CursorToImage(pos, scale) ==
    <<MathRoundMul(pos[1], Inverse(scale)), MathRoundMul(pos[2], Inverse(scale))>>

(* Lines 369-370: the pointer position in image space (get_screenshot).    *)
CursorInImage(pos, scale) ==
    <<MathFloorMul(pos[1], Inverse(scale)), MathFloorMul(pos[2], Inverse(scale))>>

(* Lines 372-406: the crosshair.  Each loop runs along one axis, clipped   *)
(* to the image, and paints the centre line and its two neighbours, but    *)
(* only if the centre line itself is inside the image.                     *)
crosshairSize == 20
(* Faulty variant: the vertical run is not clipped to the image's rows. *)
VerticalLine_unclipped(cx, cy, imageWidth, imageHeight) ==
    IF cx >= 0 /\ cx < imageWidth
    THEN { <<x, y>> : x \in {cx} \cup (IF cx > 0 THEN {cx - 1} ELSE {})
                                \cup (IF cx < imageWidth - 1 THEN {cx + 1} ELSE {}),
                     y \in (cy - crosshairSize) .. (cy + crosshairSize) }
    ELSE {}
HorizontalLine(cx, cy, imageWidth, imageHeight) ==
    IF cy >= 0 /\ cy < imageHeight
    THEN { <<x, y>> : x \in Max(0, cx - crosshairSize) .. Min(imageWidth - 1, cx + crosshairSize),
                     y \in {cy} \cup (IF cy > 0 THEN {cy - 1} ELSE {})
                                \cup (IF cy < imageHeight - 1 THEN {cy + 1} ELSE {}) }
    ELSE {}
VerticalLine(cx, cy, imageWidth, imageHeight) ==
    IF cx >= 0 /\ cx < imageWidth
    THEN { <<x, y>> : x \in {cx} \cup (IF cx > 0 THEN {cx - 1} ELSE {})
                                \cup (IF cx < imageWidth - 1 THEN {cx + 1} ELSE {}),
                     y \in Max(0, cy - crosshairSize) .. Min(imageHeight - 1, cy + crosshairSize) }
    ELSE {}
Crosshair(cx, cy, imageWidth, imageHeight) ==
    HorizontalLine(cx, cy, imageWidth, imageHeight) \cup VerticalLine(cx, cy, imageWidth, imageHeight)

(* Lines 205-207: the bounds check of the translated coordinate.           *)
(* Faulty variant: the upper bounds are taken as inclusive. *)
OutOfBounds_inclusive(x, y, width, height) == x < 0 \/ x > width \/ y < 0 \/ y > height
OutOfBounds(x, y, width, height) == x < 0 \/ x >= width \/ y < 0 \/ y >= height

(* Lines 122-127, getApiToLogicalScale, from its second await on, and then *)
(* the code of its call site: 197-204, 238-241 or 369-406.                 *)
(* Faulty variant: the scale of the last answered request is reused. *)
getApiToLogicalScale_cached(logicalWidth, logicalHeight) ==
    IF lastSize = NoSize
    THEN Inverse(getSizeToApiScale(logicalWidth, logicalHeight))
    ELSE Inverse(getSizeToApiScale(lastSize[1], lastSize[2]))
getApiToLogicalScale(logicalWidth, logicalHeight) ==
    Inverse(getSizeToApiScale(logicalWidth, logicalHeight))
AfterScale(f, logicalHeight) ==
    LET scale == getApiToLogicalScale(f.logicalWidth, logicalHeight)
        g == [f EXCEPT !.logicalHeight = logicalHeight, !.scale = scale]
    IN  CASE f.caller = "translate" ->
                [g EXCEPT !.pc = "bounds.width",
                          !.scaledCoordinate = Some(ScaleCoordinate(The(f.coordinate), scale))]
          [] f.caller = "get_cursor_position" ->
                Return(g, [kind |-> "position", err |-> "", field |-> "",
                           info |-> CursorToImage(The(f.pos), scale)])
          [] f.caller = "get_screenshot" ->
                LET cursorInImage == CursorInImage(The(f.pos), scale)
                IN  [g EXCEPT !.pc = "encode",
                              !.cursorInImage = Some(cursorInImage),
                              !.marker = Crosshair(cursorInImage[1], cursorInImage[2],
                                                   f.imageWidth, f.imageHeight)]

(* Lines 203-208, then the switch.                                         *)
AfterBounds(f, height) ==
    LET x == The(f.scaledCoordinate)[1]
        y == The(f.scaledCoordinate)[2]
        g == [f EXCEPT !.height = height]
    IN  IF OutOfBounds(x, y, f.width, height)
        THEN Return(g, Failure("CoordinateOutOfBounds", "", <<x, y, f.width, height>>))
        ELSE Dispatch(g)

(* Lines 327-342: the dispatch on the scroll direction.                    *)
(* Faulty variant: the direction is compared as written. *)
ScrollCall_caseSensitive(direction) ==
    LET d == direction
    IN  CASE d = <<"u", "p">> -> "scrollUp"
          [] d = <<"d", "o", "w", "n">> -> "scrollDown"
          [] d = <<"l", "e", "f", "t">> -> "scrollLeft"
          [] d = <<"r", "i", "g", "h", "t">> -> "scrollRight"
          [] OTHER -> ""
ScrollCall(direction) ==
    LET d == toLowerCase(direction)
    IN  CASE d = <<"u", "p">> -> "scrollUp"
          [] d = <<"d", "o", "w", "n">> -> "scrollDown"
          [] d = <<"l", "e", "f", "t">> -> "scrollLeft"
          [] d = <<"r", "i", "g", "h", "t">> -> "scrollRight"
          [] OTHER -> ""

(* What follows `await mouse.setPosition(...)` in each case.               *)
AfterSetPosition(f) ==
    CASE f.action = "mouse_move" -> Return(f, Ok)
      [] f.action \in ClickActions -> Await(f, ClickCall(f.action))
      [] f.action = "left_click_drag" -> Await(f, "releaseButton")
      [] f.action = "scroll" ->
            IF ScrollCall(f.direction) = ""
            THEN Return(f, Failure("InvalidScrollDirection", "", <<>>))
            ELSE Await(f, ScrollCall(f.direction))

(* Lines 358-364: the downscale of the captured frame.                     *)
(* Faulty variant: the frame is never shrunk. *)
FrameScale_none(rawWidth, rawHeight) == One
FrameScale(rawWidth, rawHeight) == getSizeToApiScale(rawWidth, rawHeight)
(* Faulty variant: the resized width is rounded up. *)
ResizedWidth_roundedUp(rawWidth, rawHeight) ==
    LET apiScaleFactor == FrameScale(rawWidth, rawHeight)
    IN  IF ScaleLt(apiScaleFactor, One) THEN MathFloorMul(rawWidth, apiScaleFactor) + 1 ELSE rawWidth
ResizedWidth(rawWidth, rawHeight) ==
    LET apiScaleFactor == FrameScale(rawWidth, rawHeight)
    IN  IF ScaleLt(apiScaleFactor, One) THEN MathFloorMul(rawWidth, apiScaleFactor) ELSE rawWidth
ResizedHeight(rawWidth, rawHeight) ==
    LET apiScaleFactor == FrameScale(rawWidth, rawHeight)
    IN  IF ScaleLt(apiScaleFactor, One) THEN MathFloorMul(rawHeight, apiScaleFactor) ELSE rawHeight

Issue(f, op, args) == [f EXCEPT !.calls = Append(@, Call(op, args))]

(***************************************************************************)
(* Actions: one per awaited call of the handler, and the environment       *)
(***************************************************************************)
Idle == \A s \in Sessions : h[s].pc = "idle"
Step(s, f) == h' = [h EXCEPT ![s] = f]

(* A request is delivered to session s and the handler runs to its first   *)
(* await.                                                                  *)
ReceiveFrom(s, requests) ==
    /\ h[s].pc = "idle"
    /\ \E request \in requests : Step(s, Enter(request))
    /\ UNCHANGED <<display, pointer, lastSize, parse, seen>>
Receive(s) ==
    /\ h[s].pc = "idle"
    /\ \E request \in Requests : Step(s, Enter(request))
    /\ UNCHANGED <<display, pointer, lastSize, parse, seen>>

(* The result (or the thrown error) is sent back.                          *)
Respond(s) ==
    /\ h[s].pc = "done"
    /\ Step(s, IdleFrame)
    /\ UNCHANGED <<display, pointer, lastSize, parse, seen>>

(* getApiToLogicalScale: await screen.width(), await screen.height().      *)
ScreenWidth(s) ==
    /\ h[s].pc = "screen.width"
    /\ Step(s, [h[s] EXCEPT !.pc = "screen.height", !.logicalWidth = display.width])
    /\ UNCHANGED <<display, pointer, lastSize, parse, seen>>
ScreenHeight(s) ==
    /\ h[s].pc = "screen.height"
    /\ Step(s, AfterScale(h[s], display.height))
    /\ UNCHANGED <<display, pointer, lastSize, parse, seen>>

(* Line 204: [await screen.width(), await screen.height()].                *)
BoundsWidth(s) ==
    /\ h[s].pc = "bounds.width"
    /\ Step(s, [h[s] EXCEPT !.pc = "bounds.height", !.width = display.width])
    /\ UNCHANGED <<display, pointer, lastSize, parse, seen>>
BoundsHeight(s) ==
    /\ h[s].pc = "bounds.height"
    /\ Step(s, AfterBounds(h[s], display.height))
    /\ UNCHANGED <<display, pointer, lastSize, parse, seen>>

(* Lines 218-219: keyboard.pressKey(...keys), keyboard.releaseKey(...keys).*)
PressKey(s) ==
    /\ h[s].pc = "pressKey"
    /\ Step(s, Await(Issue(h[s], "pressKey", h[s].keys), "releaseKey"))
    /\ UNCHANGED <<display, pointer, lastSize, parse, seen>>
ReleaseKeyArgs(keys) == keys
ReleaseKey(s) ==
    /\ h[s].pc = "releaseKey"
    /\ Step(s, Return(Issue(h[s], "releaseKey", ReleaseKeyArgs(h[s].keys)), Ok))
    /\ UNCHANGED <<display, pointer, lastSize, parse, seen>>

(* Line 229: keyboard.type(text).                                          *)
TypeText(s) ==
    /\ h[s].pc = "type"
    /\ Step(s, Return(Issue(h[s], "type", The(h[s].text)), Ok))
    /\ UNCHANGED <<display, pointer, lastSize, parse, seen>>

(* Lines 234 and 352: mouse.getPosition().                                 *)
GetPosition(s) ==
    /\ h[s].pc = "getPosition"
    /\ Step(s, [h[s] EXCEPT !.pos = Some(pointer),
                            !.caller = h[s].action,
                            !.pc = IF h[s].action = "get_screenshot" THEN "grab" ELSE "screen.width"])
    /\ UNCHANGED <<display, pointer, lastSize, parse, seen>>

(* mouse.setPosition(new Point(scaledCoordinate[0], scaledCoordinate[1])). *)
SetPosition(s) ==
    /\ h[s].pc = "setPosition"
    /\ pointer' = The(h[s].scaledCoordinate)
    /\ Step(s, AfterSetPosition(Issue(h[s], "setPosition", The(h[s].scaledCoordinate))))
    /\ UNCHANGED <<display, lastSize, parse, seen>>

(* mouse.leftClick(), rightClick(), click(Button.MIDDLE), doubleClick():   *)
(* the click lands where the pointer is.                                   *)
Click(s) ==
    /\ h[s].pc \in {"leftClick", "rightClick", "click", "doubleClick"}
    /\ Step(s, Return(Issue(h[s], h[s].pc, pointer), Ok))
    /\ UNCHANGED <<display, pointer, lastSize, parse, seen>>

(* Lines 267-269: pressButton(LEFT), setPosition, releaseButton(LEFT).     *)
PressButton(s) ==
    /\ h[s].pc = "pressButton"
    /\ Step(s, Await(Issue(h[s], "pressButton", pointer), "setPosition"))
    /\ UNCHANGED <<display, pointer, lastSize, parse, seen>>
ReleaseButton(s) ==
    /\ h[s].pc = "releaseButton"
    /\ Step(s, Return(Issue(h[s], "releaseButton", pointer), Ok))
    /\ UNCHANGED <<display, pointer, lastSize, parse, seen>>

(* Lines 329-338: mouse.scrollUp/Down/Left/Right(amount).                  *)
Scroll(s) ==
    /\ h[s].pc \in {"scrollUp", "scrollDown", "scrollLeft", "scrollRight"}
    /\ Step(s, Return(Issue(h[s], h[s].pc, <<h[s].amount>>), Ok))
    /\ UNCHANGED <<display, pointer, lastSize, parse, seen>>

(* Line 349: the settle delay.                                             *)
SetTimeout(s) ==
    /\ h[s].pc = "setTimeout"
    /\ Step(s, Await(h[s], "getPosition"))
    /\ UNCHANGED <<display, pointer, lastSize, parse, seen>>

(* Lines 355-368: screen.grab(), the resize, then getApiToLogicalScale().  *)
Grab(s) ==
    /\ h[s].pc = "grab"
    /\ LET rawWidth == display.width * display.ratio
           rawHeight == display.height * display.ratio
       IN  Step(s, [h[s] EXCEPT !.pc = "screen.width",
                                !.rawWidth = rawWidth, !.rawHeight = rawHeight,
                                !.apiScaleFactor = FrameScale(rawWidth, rawHeight),
                                !.imageWidth = ResizedWidth(rawWidth, rawHeight),
                                !.imageHeight = ResizedHeight(rawWidth, rawHeight)])
    /\ UNCHANGED <<display, pointer, lastSize, parse, seen>>

(* Lines 409-436: the PNG is encoded and the result reports the image's    *)
(* dimensions.                                                             *)
ReportedSize(f) == <<f.imageWidth, f.imageHeight>>
Encode(s) ==
    /\ h[s].pc = "encode"
    /\ Step(s, Return(h[s], [kind |-> "screenshot", err |-> "", field |-> "",
                             info |-> ReportedSize(h[s])]))
    /\ UNCHANGED <<display, pointer, lastSize, parse, seen>>

(* An awaited native call rejects: the handler throws and nothing later    *)
(* in it runs.                                                             *)
Awaiting(f) == f.pc \notin {"idle", "done", "setTimeout"}
Rejects(s) ==
    /\ Awaiting(h[s])
    /\ Step(s, Return(h[s], Failure("BackendError", "", <<>>)))
    /\ UNCHANGED <<display, pointer, lastSize, parse, seen>>

(* The environment, between requests: the display is reconfigured, the     *)
(* user moves the pointer.                                                 *)
Reconfigure ==
    /\ Idle
    /\ display' \in Displays \ {display}
    /\ pointer' \in PointerSamples(display'.width, display'.height)
    /\ UNCHANGED <<h, lastSize, parse, seen>>
MovePointer ==
    /\ Idle
    /\ pointer' \in PointerSamples(display.width, display.height) \ {pointer}
    /\ UNCHANGED <<display, h, lastSize, parse, seen>>

Handler(s) ==
    \/ Receive(s) \/ Respond(s)
    \/ ScreenWidth(s) \/ ScreenHeight(s) \/ BoundsWidth(s) \/ BoundsHeight(s)
    \/ PressKey(s) \/ ReleaseKey(s) \/ TypeText(s)
    \/ GetPosition(s) \/ SetPosition(s) \/ Click(s)
    \/ PressButton(s) \/ ReleaseButton(s) \/ Scroll(s)
    \/ SetTimeout(s) \/ Grab(s) \/ Encode(s)
    \/ Rejects(s)

Init ==
    /\ display \in Displays
    /\ pointer \in PointerSamples(display.width, display.height)
    /\ h = [s \in Sessions |-> IdleFrame]
    /\ lastSize = NoSize
    /\ parse = NoParse
    /\ seen = NothingSeen

(* One client: requests arrive one at a time, on session s1.               *)
Next == Handler("s1") \/ Reconfigure \/ MovePointer

Spec == Init /\ [][Next]_vars

(* One client that works from what it was sent: it asks for the pointer    *)
(* position or a screenshot, and sends a position it was reported, or a    *)
(* corner or the middle of the image it was sent, as the coordinate of a   *)
(* mouse_move.  seen remembers the last result.  The display keeps its     *)
(* size.                                                                   *)
QueryRequests ==
    { r \in Requests :
        /\ r.action \in {"get_cursor_position", "get_screenshot"}
        /\ r.coordinate = Nothing /\ r.text = Nothing }
ImagePoints(imageWidth, imageHeight) ==
    { <<0, 0>>, <<imageWidth - 1, 0>>, <<0, imageHeight - 1>>,
      <<imageWidth - 1, imageHeight - 1>>, <<imageWidth \div 2, imageHeight \div 2>> }
EchoCoordinates ==
    CASE seen.kind = "position" -> {seen.info}
      [] seen.kind = "screenshot" -> ImagePoints(seen.info[1], seen.info[2])
      [] OTHER -> {}
ReceiveQuery(s) == ReceiveFrom(s, QueryRequests)
ReceiveEcho(s) ==
    /\ h[s].pc = "idle"
    /\ \E c \in EchoCoordinates :
          Step(s, Enter([action |-> "mouse_move", coordinate |-> Some(c), text |-> Nothing]))
    /\ UNCHANGED <<display, pointer, lastSize, parse, seen>>
RespondSeen(s) ==
    /\ h[s].pc = "done"
    /\ Step(s, IdleFrame)
    /\ seen' = [kind |-> h[s].result.kind, info |-> h[s].result.info, pos |-> h[s].pos]
    /\ UNCHANGED <<display, pointer, lastSize, parse>>
NextClient ==
    \/ ReceiveQuery("s1") \/ ReceiveEcho("s1") \/ RespondSeen("s1")
    \/ ScreenWidth("s1") \/ ScreenHeight("s1") \/ BoundsWidth("s1") \/ BoundsHeight("s1")
    \/ GetPosition("s1") \/ SetPosition("s1")
    \/ SetTimeout("s1") \/ Grab("s1") \/ Encode("s1")
    \/ Rejects("s1")
    \/ MovePointer
SpecClient == Init /\ [][NextClient]_vars

(* Two HTTP sessions (main.ts 38-71): each has its own server and          *)
(* transport, all drive the one native backend, and nothing orders their   *)
(* handlers: whichever awaited call returns next, runs next.               *)
ConcurrentRequests ==
    { r \in Requests :
        \/ r.action = "left_click" /\ r.coordinate = Some(<<100, 100>>)
        \/ r.action = "mouse_move" /\ r.coordinate = Some(<<0, 0>>) }
ReceiveConcurrent(s) == ReceiveFrom(s, ConcurrentRequests)
NextConcurrent ==
    \E s \in Sessions :
        \/ ReceiveConcurrent(s) \/ Respond(s)
        \/ ScreenWidth(s) \/ ScreenHeight(s) \/ BoundsWidth(s) \/ BoundsHeight(s)
        \/ SetPosition(s) \/ Click(s)
        \/ Rejects(s)
SpecConcurrent == Init /\ [][NextConcurrent]_vars

(* A schema made by strictSchemaWithAliases parses arguments: the          *)
(* preprocessing function runs, then the strict object schema.             *)
Preprocess ==
    /\ parse.pc = "args"
    /\ parse' = [parse EXCEPT !.pc = "preprocessed",
                              !.result = preprocess(parse.aliases, parse.args)]
    /\ UNCHANGED <<display, pointer, h, lastSize, seen>>
Validate ==
    /\ parse.pc = "preprocessed"
    /\ parse' = [parse EXCEPT !.pc = "done",
                              !.success = objectSchema(parse.shape, parse.result)]
    /\ UNCHANGED <<display, pointer, h, lastSize, seen>>
InitSchema ==
    /\ display = [width |-> 800, height |-> 600, ratio |-> 1]
    /\ pointer = <<0, 0>>
    /\ h = [s \in Sessions |-> IdleFrame]
    /\ lastSize = NoSize
    /\ seen = NothingSeen
    /\ parse \in [ pc : {"args"}, shape : {computerShape}, aliases : AliasMaps,
                    args : Arguments, result : {NotAnObject}, success : {FALSE} ]
NextSchema == Preprocess \/ Validate
SpecSchema == InitSchema /\ [][NextSchema]_vars

(* One client whose requests carry a coordinate; what each answered        *)
(* request read of the screen is remembered in lastSize.  The display      *)
(* changes between requests.                                               *)
TranslatingRequests ==
    { r \in Requests :
        /\ r.action \in {"mouse_move", "left_click"}
        /\ r.coordinate \in {Some(<<100, 100>>), Some(<<799, 599>>), Some(<<1463, 822>>)} }
ReceiveTranslating(s) == ReceiveFrom(s, TranslatingRequests)
RespondRecording(s) ==
    /\ h[s].pc = "done"
    /\ Step(s, IdleFrame)
    /\ lastSize' = IF h[s].logicalHeight # 0
                   THEN <<h[s].logicalWidth, h[s].logicalHeight>>
                   ELSE lastSize
    /\ UNCHANGED <<display, pointer, parse, seen>>
NextHistory ==
    \/ ReceiveTranslating("s1") \/ RespondRecording("s1")
    \/ ScreenWidth("s1") \/ ScreenHeight("s1") \/ BoundsWidth("s1") \/ BoundsHeight("s1")
    \/ SetPosition("s1") \/ Click("s1")
    \/ Rejects("s1")
    \/ Reconfigure
SpecHistory == Init /\ [][NextHistory]_vars

(* One client whose requests carry a coordinate, while the display may be  *)
(* reconfigured (among three sizes) at any time, also while a request is   *)
(* suspended at an await; the pointer, at the origin to begin with, is     *)
(* kept on the screen.                                                     *)
ResizedDisplays == { d \in Displays : d.width \in {800, 1920, 3840} }
Resize ==
    /\ display' \in ResizedDisplays \ {display}
    /\ pointer' = <<Min(pointer[1], display'.width - 1), Min(pointer[2], display'.height - 1)>>
    /\ UNCHANGED <<h, lastSize, parse, seen>>
NextResize ==
    \/ ReceiveTranslating("s1") \/ Respond("s1")
    \/ ScreenWidth("s1") \/ ScreenHeight("s1") \/ BoundsWidth("s1") \/ BoundsHeight("s1")
    \/ SetPosition("s1") \/ Click("s1")
    \/ Rejects("s1")
    \/ Resize
InitResize == Init /\ display \in ResizedDisplays /\ pointer = <<0, 0>>
SpecResize == InitResize /\ [][NextResize]_vars

(***************************************************************************)
(* Properties                                                              *)
(***************************************************************************)
Reverse(seq) == [i \in 1..Len(seq) |-> seq[Len(seq) + 1 - i]]
InputCalls(f) == f.calls
Translated(f) == IsSome(f.coordinate) /\ f.scale # NoScale
BoundsChecked(f) == IsSome(f.coordinate) /\ f.height # 0
Succeeded(f) == f.pc = "done" /\ f.result.kind # "error"

(* The validation table of the dispatcher: the required field, if any,     *)
(* that the request lacks.                                                 *)
RequiredMissing(f) ==
    \/ f.action \in {"key", "type", "scroll"} /\ TextMissing(f.text)
    \/ f.action \in {"mouse_move", "left_click_drag", "scroll"} /\ ~IsSome(f.coordinate)

(* C1: a request that lacks a required field (text for key, type, scroll;  *)
(* coordinate for mouse_move, left_click_drag, scroll) fails with a        *)
(* missing-parameter error before the screen size is read, the coordinate  *)
(* is scaled or bounds-checked, or any backend call is made, whatever      *)
(* coordinate it carries.                                                  *)
C1_ValidateBeforeTranslate ==
    \A s \in Sessions :
        LET f == h[s]
        IN  (f.pc # "idle" /\ RequiredMissing(f)) =>
                /\ f.pc = "done"
                /\ f.result.err = "MissingParameter"
                /\ f.logicalWidth = 0 /\ f.logicalHeight = 0
                /\ f.width = 0 /\ f.height = 0
                /\ f.calls = <<>>

(* C2: a coordinate whose translation falls outside [0,width) x [0,height) *)
(* of the live logical screen makes the request fail with an out-of-bounds *)
(* error reporting the translated coordinate and the current width and     *)
(* height, and no input backend call is made; (1525, 8) on 1920x1080 maps  *)
(* to (2000, 10) and reports 1920 and 1080.                                *)
C2_OutOfBoundsRejected ==
    \A s \in Sessions :
        LET f == h[s]
            x == The(f.scaledCoordinate)[1]
            y == The(f.scaledCoordinate)[2]
            inside == 0 <= x /\ x < display.width /\ 0 <= y /\ y < display.height
        IN  BoundsChecked(f) =>
                /\ f.width = display.width /\ f.height = display.height
                /\ ~inside =>
                      /\ f.pc = "done"
                      /\ f.result = Failure("CoordinateOutOfBounds", "", <<x, y, display.width, display.height>>)
                      /\ f.calls = <<>>
                /\ f.result.err = "CoordinateOutOfBounds" => ~inside
                /\ (f.coordinate = Some(<<1525, 8>>) /\ display.width = 1920 /\ display.height = 1080) =>
                      f.result.info = <<2000, 10, 1920, 1080>>

C2_Witness ==
    \E s \in Sessions :
        /\ h[s].action = "left_click"
        /\ h[s].pc = "done"
        /\ h[s].result = Failure("CoordinateOutOfBounds", "", <<2000, 10, 1920, 1080>>)

(* a <= b * sqrt(q) for integers a, b, decided on the squares.             *)
LeqTimesRoot(a, b, q) ==
    CASE a <= 0 /\ b >= 0 -> TRUE
      [] a > 0 /\ b <= 0 -> FALSE
      [] a > 0 /\ b > 0 -> LeqFrac(a * a, b * b, q.n, q.d)
      [] OTHER -> LeqFrac(q.n, q.d, a * a, b * b)
(* r is c * sqrt(q) rounded to the nearest integer, halves upward:         *)
(* r - 1/2 <= c * sqrt(q) < r + 1/2.                                       *)
IsRounded(r, c, q) == LeqTimesRoot(2 * r - 1, 2 * c, q) /\ ~LeqTimesRoot(2 * r + 1, 2 * c, q)
(* r is floor(c * sqrt(q)), for c >= 0.                                    *)
IsFloor(r, c, q) == LeqTimesRoot(r, c, q) /\ ~LeqTimesRoot(r + 1, c, q)

InsideDisplay(pos) ==
    0 <= pos[1] /\ pos[1] < display.width /\ 0 <= pos[2] /\ pos[2] < display.height
CursorReported(f) ==
    f.action = "get_cursor_position" /\ f.pc = "done" /\ f.result.kind = "position"
(* The logical coordinate the handler computes when the reported pointer   *)
(* position is sent back as a coordinate.                                  *)
RoundTrip(f) == ScaleCoordinate(f.result.info, f.scale)

(* C3 as stated: for every pointer position inside the screen, the         *)
(* position reported in image space, translated back to logical space, is  *)
(* within 1 of the original on each axis, for every scale.                 *)
C3_RoundTripWithinOne ==
    \A s \in Sessions :
        LET f == h[s]
        IN  (CursorReported(f) /\ InsideDisplay(The(f.pos))) =>
                \A i \in 1..2 : Abs(RoundTrip(f)[i] - The(f.pos)[i]) <= 1

(* C3 amended: the round trip is within 1 on each axis whenever the scale  *)
(* is greater than 1/3; for smaller scales it is within round(1/(2s)).     *)
C3_RoundTripBound ==
    \A s \in Sessions :
        LET f == h[s]
            scaleDown == Inverse(f.scale)
            third == [n |-> 1, d |-> 9]
            slack == MathRoundMul(1, [n |-> f.scale.n, d |-> 4 * f.scale.d])
        IN  (CursorReported(f) /\ InsideDisplay(The(f.pos))) =>
                \A i \in 1..2 :
                    /\ ScaleLt(third, scaleDown) => Abs(RoundTrip(f)[i] - The(f.pos)[i]) <= 1
                    /\ Abs(RoundTrip(f)[i] - The(f.pos)[i]) <= slack

C3_Witness ==
    \E s \in Sessions :
        /\ CursorReported(h[s])
        /\ InsideDisplay(The(h[s].pos))
        /\ ScaleLt([n |-> 1, d |-> 9], Inverse(h[s].scale))
        /\ ScaleLt(Inverse(h[s].scale), One)
        /\ Abs(RoundTrip(h[s])[1] - The(h[s].pos)[1]) = 1

(* The image get_screenshot produces for the display as it is.             *)
ImageWidthNow == ResizedWidth(display.width * display.ratio, display.height * display.ratio)
ImageHeightNow == ResizedHeight(display.width * display.ratio, display.height * display.ratio)

(* C4: for every pointer position inside the logical screen, the position  *)
(* get_cursor_position returns and the marker centre of get_screenshot lie *)
(* inside the image get_screenshot produces for that screen.               *)
C4_CursorInsideImage ==
    \A s \in Sessions :
        LET f == h[s]
        IN  /\ (CursorReported(f) /\ InsideDisplay(The(f.pos))) =>
                  /\ 0 <= f.result.info[1] /\ f.result.info[1] < ImageWidthNow
                  /\ 0 <= f.result.info[2] /\ f.result.info[2] < ImageHeightNow
            /\ (IsSome(f.cursorInImage) /\ InsideDisplay(The(f.pos))) =>
                  /\ 0 <= The(f.cursorInImage)[1] /\ The(f.cursorInImage)[1] < f.imageWidth
                  /\ 0 <= The(f.cursorInImage)[2] /\ The(f.cursorInImage)[2] < f.imageHeight

Captured(f) == f.action = "get_screenshot" /\ f.rawWidth # 0
ScreenshotReturned(f) ==
    f.action = "get_screenshot" /\ f.pc = "done" /\ f.result.kind = "screenshot"
(* The frame has been resized to floor(raw * s) exactly when s < 1.        *)
ResizedBy(f, scaleDown) ==
    IF ScaleLt(scaleDown, One)
    THEN /\ IsFloor(f.imageWidth, f.rawWidth, scaleDown)
         /\ IsFloor(f.imageHeight, f.rawHeight, scaleDown)
    ELSE f.imageWidth = f.rawWidth /\ f.imageHeight = f.rawHeight

C6_ReportedImageSize ==
    \A s \in Sessions :
        LET f == h[s]
        IN  ScreenshotReturned(f) =>
                /\ f.result.info = <<f.imageWidth, f.imageHeight>>
                /\ (f.rawWidth = 800 /\ f.rawHeight = 600) =>
                      /\ f.result.info = <<800, 600>>
                      /\ ScaleEq(f.apiScaleFactor, One)
                /\ (f.rawWidth = 3840 /\ f.rawHeight = 2160) =>
                      /\ f.result.info = <<1464, 823>>
                      /\ ScaleLt(f.apiScaleFactor, [n |-> 1568 * 1568, d |-> 3840 * 3840])
                      /\ ScaleLt([n |-> 3812 * 3812, d |-> 10000 * 10000], f.apiScaleFactor)
                      /\ ScaleLt(f.apiScaleFactor, [n |-> 3814 * 3814, d |-> 10000 * 10000])

C6_Witness ==
    \E s \in Sessions :
        /\ ScreenshotReturned(h[s])
        /\ h[s].rawWidth = 3840 /\ h[s].rawHeight = 2160
        /\ h[s].result.info = <<1464, 823>>

(* C7: an incoming coordinate is translated to round(c / scale_down) on    *)
(* each axis, scale_down being derived from the live logical screen size;  *)
(* on 3840x2160 a click at (100, 100) moves the pointer to (262, 262)      *)
(* before clicking.                                                        *)
C7_CoordinateToLogical ==
    \A s \in Sessions :
        LET f == h[s]
            scaleDown == getSizeToApiScale(display.width, display.height)
        IN  Translated(f) =>
                /\ \A i \in 1..2 :
                      IsRounded(The(f.scaledCoordinate)[i], The(f.coordinate)[i], Inverse(scaleDown))
                /\ \A k \in 1..Len(f.calls) :
                      f.calls[k].op = "setPosition" => f.calls[k].args = The(f.scaledCoordinate)
                /\ (display.width = 3840 /\ display.height = 2160 /\ f.coordinate = Some(<<100, 100>>)) =>
                      /\ f.scaledCoordinate = Some(<<262, 262>>)
                      /\ (f.action = "left_click" /\ Succeeded(f)) =>
                            f.calls = <<Call("setPosition", <<262, 262>>), Call("leftClick", <<262, 262>>)>>

C7_Witness ==
    \E s \in Sessions :
        /\ h[s].action = "left_click" /\ Succeeded(h[s])
        /\ h[s].coordinate = Some(<<100, 100>>)
        /\ h[s].calls = <<Call("setPosition", <<262, 262>>), Call("leftClick", <<262, 262>>)>>

(* The sizes the handler applies getSizeToApiScale to: the logical sizes   *)
(* and the captured frames' sizes of the displays.                         *)
SampleWidths == UNION { {d.width, d.width * d.ratio} : d \in Displays }
SampleHeights == UNION { {d.height, d.height * d.ratio} : d \in Displays }

(* q is the scale of a width x height screen: in (0, 1], within both       *)
(* limits, equal to one of 1, 1568/longEdge, sqrt(maxPixels/(w*h)), and    *)
(* not exceeded by the scale of any wider or any taller screen.            *)
IsScaleOf(q, width, height) ==
    LET longEdge == Max(width, height)
        edgeLimit == [n |-> 1568 * 1568, d |-> longEdge * longEdge]
        pixelLimit == [n |-> 6029312, d |-> 5 * width * height]
    IN  /\ q.n > 0 /\ q.d > 0
        /\ ScaleLeq(q, One) /\ ScaleLeq(q, edgeLimit) /\ ScaleLeq(q, pixelLimit)
        /\ ScaleEq(q, One) \/ ScaleEq(q, edgeLimit) \/ ScaleEq(q, pixelLimit)
        /\ \A w \in SampleWidths : w >= width => ScaleLeq(getSizeToApiScale(w, height), q)
        /\ \A hh \in SampleHeights : hh >= height => ScaleLeq(getSizeToApiScale(width, hh), q)

(* C8: the scale getSizeToApiScale returns is greater than 0, at most 1,   *)
(* equal to min(min(1, 1568/max(w,h)), min(1, sqrt(maxPixels/(w*h)))),     *)
(* and does not increase when the width or the height grows.               *)
C8_ScaleIsBoundedMinimum ==
    \A s \in Sessions :
        LET f == h[s]
        IN  /\ f.scale # NoScale => IsScaleOf(Inverse(f.scale), f.logicalWidth, f.logicalHeight)
            /\ f.rawWidth # 0 => IsScaleOf(f.apiScaleFactor, f.rawWidth, f.rawHeight)

C8_Witness ==
    \E s \in Sessions :
        /\ h[s].scale # NoScale
        /\ h[s].logicalWidth = 3440 /\ h[s].logicalHeight = 1440
        /\ ScaleEq(Inverse(h[s].scale), [n |-> 1568 * 1568, d |-> 3440 * 3440])
        /\ ScaleLt(getSizeToApiScale(3840, 1440), Inverse(h[s].scale))

KeyPressed(f) == f.action = "key" /\ Succeeded(f)

(* C9: the key action presses the symbols of the chord in parse order and  *)
(* then releases them in the reverse of the press order; no release comes  *)
(* before the last press.                                                  *)
C9_ReleaseInReverseOrder ==
    \A s \in Sessions :
        LET f == h[s]
        IN  KeyPressed(f) =>
                /\ Len(f.calls) = 2
                /\ f.calls[1] = Call("pressKey", The(toKeys(The(f.text))))
                /\ f.calls[2] = Call("releaseKey", Reverse(The(toKeys(The(f.text)))))

IsClick(f) == f.action \in ClickActions
ClickOps == {"leftClick", "rightClick", "click", "doubleClick"}
ClickOpOf(action) ==
    CASE action = "left_click" -> "leftClick"
      [] action = "right_click" -> "rightClick"
      [] action = "middle_click" -> "click"
      [] action = "double_click" -> "doubleClick"
      [] OTHER -> ""
Moves(f) == { k \in 1..Len(f.calls) : f.calls[k].op = "setPosition" }

(* C10: a click without a coordinate issues no pointer move and clicks at  *)
(* the current pointer position; a click with a coordinate issues exactly  *)
(* one pointer move, to the translated coordinate, before the click.       *)
C10_ClickMovesOnlyWithCoordinate ==
    \A s \in Sessions :
        LET f == h[s]
            last == f.calls[Len(f.calls)]
        IN  IsClick(f) =>
                /\ ~IsSome(f.coordinate) => Moves(f) = {}
                /\ (\E k \in 1..Len(f.calls) : f.calls[k].op \in ClickOps) =>
                      /\ last = Call(ClickOpOf(f.action), pointer)
                      /\ IsSome(f.coordinate) =>
                            /\ f.calls = <<Call("setPosition", The(f.scaledCoordinate)), last>>
                            /\ pointer = The(f.scaledCoordinate)
                      /\ ~IsSome(f.coordinate) => f.calls = <<last>>
                /\ Succeeded(f) =>
                      /\ Cardinality(Moves(f)) = (IF IsSome(f.coordinate) THEN 1 ELSE 0)
                      /\ last.op = ClickOpOf(f.action)

C10_Witness ==
    \E s \in Sessions :
        /\ h[s].action = "double_click" /\ Succeeded(h[s])
        /\ h[s].coordinate = Some(<<1525, 8>>)
        /\ h[s].calls = <<Call("setPosition", The(h[s].scaledCoordinate)), Call("doubleClick", pointer)>>

(***************************************************************************)
(* Scroll: the parse of "direction[:amount]" and the dispatch              *)
(***************************************************************************)
IsScroll(f, text) == f.action = "scroll" /\ f.text = Some(text)
ScrollOps == {"scrollUp", "scrollDown", "scrollLeft", "scrollRight"}
ScrollCalls(f) == SelectSeq(f.calls, LAMBDA c : c.op \in ScrollOps)
(* The request got through the checks of the coordinate: it is present     *)
(* and inside the screen.                                                  *)
CoordinateAccepted(f) ==
    /\ BoundsChecked(f)
    /\ ~(f.pc = "done" /\ f.result.err = "CoordinateOutOfBounds")
FailedWith(f, err) == f.pc = "done" /\ f.result.kind = "error" /\ f.result.err = err

(* C12: a scroll text with no amount part scrolls by exactly 300, "down:50" *)
(* scrolls down by 50, and "down:0" and "down:-5" fail with the            *)
(* invalid-scroll-amount error (and scroll nothing).                       *)
C12_ScrollAmount ==
    \A s \in Sessions :
        LET f == h[s]
            down == <<"d", "o", "w", "n">>
        IN  /\ (IsScroll(f, down) \/ IsScroll(f, <<"l", "e", "f", "t">>)) =>
                  /\ CoordinateAccepted(f) => f.amount = 300
                  /\ Succeeded(f) =>
                        ScrollCalls(f) =
                            <<Call(IF f.text = Some(down) THEN "scrollDown" ELSE "scrollLeft", <<300>>)>>
            /\ IsScroll(f, down \o <<":", "5", "0">>) =>
                  /\ CoordinateAccepted(f) => f.amount = 50
                  /\ Succeeded(f) => ScrollCalls(f) = <<Call("scrollDown", <<50>>)>>
            /\ (IsScroll(f, down \o <<":", "0">>) \/ IsScroll(f, down \o <<":", "-", "5">>)) =>
                  /\ CoordinateAccepted(f) => FailedWith(f, "InvalidScrollAmount")
                  /\ f.calls = <<>>

C12_Witness ==
    \E s \in Sessions :
        /\ IsScroll(h[s], <<"d", "o", "w", "n">>)
        /\ Succeeded(h[s])
        /\ h[s].calls[Len(h[s].calls)] = Call("scrollDown", <<300>>)

(* The text after the first colon, as the pieces split(":") makes of it,   *)
(* is a positive integer: one piece, decimal digits only, not zero.        *)
IsPositiveInteger(str) ==
    /\ str # <<>>
    /\ \A i \in 1..Len(str) : IsDigit(str[i])
    /\ \E i \in 1..Len(str) : str[i] # "0"
HasAmountPart(parts) == Len(parts) >= 2
AmountPartValid(parts) == Len(parts) = 2 /\ IsPositiveInteger(parts[2])

(* C13: a scroll text whose amount part is present and is not a positive   *)
(* integer ("down:", "down:5x", "down:1.5", "down:5:7", ...) fails with    *)
(* the invalid-scroll-amount error and no scroll is issued.                *)
C13_AmountMustBePositiveInteger ==
    \A s \in Sessions :
        LET f == h[s]
            parts == split(The(f.text), ":")
        IN  (/\ f.action = "scroll" /\ ~TextMissing(f.text)
             /\ parts[1] # <<>>
             /\ HasAmountPart(parts) /\ ~AmountPartValid(parts)) =>
                /\ CoordinateAccepted(f) => FailedWith(f, "InvalidScrollAmount")
                /\ ScrollCalls(f) = <<>>

(* The direction names, matched letter by letter without regard to case.   *)
DirectionNames ==
    { <<"u", "p">>, <<"d", "o", "w", "n">>, <<"l", "e", "f", "t">>, <<"r", "i", "g", "h", "t">> }
SameWord(str, name) ==
    /\ Len(str) = Len(name)
    /\ \A i \in 1..Len(str) :
          \E k \in 1..Len(LowerCase) : LowerCase[k] = name[i] /\ str[i] \in {LowerCase[k], UpperCase[k]}
NamesDirection(str) == \E name \in DirectionNames : SameWord(str, name)
ScrollOpFor(str) ==
    CASE SameWord(str, <<"u", "p">>) -> "scrollUp"
      [] SameWord(str, <<"d", "o", "w", "n">>) -> "scrollDown"
      [] SameWord(str, <<"l", "e", "f", "t">>) -> "scrollLeft"
      [] SameWord(str, <<"r", "i", "g", "h", "t">>) -> "scrollRight"
DirectionErrors == {"InvalidScrollDirection", "ScrollDirectionRequired"}
Rejected(f) == f.pc = "done" /\ f.result.kind = "error" /\ f.result.err # "BackendError"
ScrollParsed(f) == f.action = "scroll" /\ ~TextMissing(f.text) /\ CoordinateAccepted(f)

(* A scroll whose direction names one of up, down, left, right in any case *)
(* issues, when it succeeds, exactly the matching scroll call with the     *)
(* parsed amount.                                                          *)
DirectionDispatched(f) ==
    LET parts == split(The(f.text), ":")
    IN  (ScrollParsed(f) /\ NamesDirection(parts[1])) =>
            /\ ~FailedWith(f, "InvalidScrollDirection") /\ ~FailedWith(f, "ScrollDirectionRequired")
            /\ Succeeded(f) => ScrollCalls(f) = <<Call(ScrollOpFor(parts[1]), <<f.amount>>)>>
            /\ (Succeeded(f) /\ AmountPartValid(parts)) => f.amount = The(parseInt(parts[2]))

ValidationErrors ==
    { "MissingParameter", "CoordinateOutOfBounds", "InvalidScrollDirection",
      "ScrollDirectionRequired", "InvalidScrollAmount" }

(* C20: a request that fails with a validation error (missing parameter,   *)
(* coordinate out of bounds, invalid scroll direction, invalid scroll      *)
(* amount) has issued no native backend call that changes the pointer, the *)
(* buttons or the keyboard; a scroll with an invalid direction does not    *)
(* move the pointer.                                                       *)
C20_ValidationFailureHasNoEffect ==
    \A s \in Sessions :
        LET f == h[s]
        IN  (f.pc = "done" /\ f.result.kind = "error" /\ f.result.err \in ValidationErrors) =>
                f.calls = <<>>

(***************************************************************************)
(* get_cursor_position                                                     *)
(***************************************************************************)
(* C18: get_cursor_position returns the live logical pointer position      *)
(* converted to image space, round(logical * scale_down) on each axis with *)
(* scale_down derived from the live logical screen size, and issues no     *)
(* call that changes the pointer or the keyboard.                          *)
C18_CursorPositionInImageSpace ==
    \A s \in Sessions :
        LET f == h[s]
            scaleDown == getSizeToApiScale(display.width, display.height)
        IN  f.action = "get_cursor_position" =>
                /\ f.calls = <<>>
                /\ IsSome(f.pos) => The(f.pos) = pointer
                /\ CursorReported(f) =>
                      \A i \in 1..2 : IsRounded(f.result.info[i], pointer[i], scaleDown)

C18_Witness ==
    \E s \in Sessions :
        /\ CursorReported(h[s])
        /\ display.width = 1920 /\ display.height = 1080
        /\ pointer = <<1919, 1079>>
        /\ h[s].result.info = <<1463, 823>>
        /\ h[s].calls = <<>>

(***************************************************************************)
(* The pointer marker of get_screenshot                                    *)
(***************************************************************************)
MarkerDrawn(f) == f.action = "get_screenshot" /\ IsSome(f.cursorInImage)
InsideImage(p, f) ==
    0 <= p[1] /\ p[1] < f.imageWidth /\ 0 <= p[2] /\ p[2] < f.imageHeight

(* C15: the marker drawing of get_screenshot never writes a pixel outside  *)
(* [0, image_width) x [0, image_height), wherever the marker's centre is,  *)
(* on the border of the image or outside it included.                      *)
C15_MarkerClipped ==
    \A s \in Sessions : \A p \in h[s].marker : InsideImage(p, h[s])

(* The centre is outside the image (one row below it) and part of the      *)
(* marker is painted.                                                      *)
C15_Witness ==
    \E s \in Sessions :
        /\ MarkerDrawn(h[s])
        /\ ~InsideImage(The(h[s].cursorInImage), h[s])
        /\ h[s].marker # {}

(* The shape the marker has when centred at c: a horizontal and a vertical *)
(* run, 2 * 20 + 1 long and 3 thick.                                       *)
MarkerShape(c, f) ==
    { p \in (Max(0, c[1] - 20) .. Min(f.imageWidth - 1, c[1] + 20))
             \X (Max(0, c[2] - 20) .. Min(f.imageHeight - 1, c[2] + 20)) :
        \/ Abs(p[1] - c[1]) <= 20 /\ Abs(p[2] - c[2]) <= 1
        \/ Abs(p[2] - c[2]) <= 20 /\ Abs(p[1] - c[1]) <= 1 }

(* C16: the marker is centred at round(logical pointer * scale_down) and   *)
(* the pixels painted are exactly the two runs (41 long, 3 thick)          *)
(* intersected with the frame, also when the centre row or column is       *)
(* outside the frame.                                                      *)
C16_MarkerShape ==
    \A s \in Sessions :
        LET f == h[s]
            centre == <<MathRoundMul(The(f.pos)[1], Inverse(f.scale)),
                        MathRoundMul(The(f.pos)[2], Inverse(f.scale))>>
        IN  MarkerDrawn(f) => f.marker = MarkerShape(centre, f)

(***************************************************************************)
(* The scale is derived anew in every request                              *)
(***************************************************************************)
(* C17: the scale a request uses is derived from the logical screen size   *)
(* read during that request, never carried over from an earlier one: when  *)
(* the screen size has changed between two requests, the later request     *)
(* translates and bounds-checks its coordinate with the new size only.     *)
C17_ScaleFromLiveSize ==
    \A s \in Sessions :
        LET f == h[s]
            live == Inverse(getSizeToApiScale(display.width, display.height))
            x == The(f.scaledCoordinate)[1]
            y == The(f.scaledCoordinate)[2]
        IN  /\ Translated(f) =>
                  /\ f.logicalWidth = display.width /\ f.logicalHeight = display.height
                  /\ ScaleEq(f.scale, live)
                  /\ \A i \in 1..2 : IsRounded(The(f.scaledCoordinate)[i], The(f.coordinate)[i], live)
            /\ BoundsChecked(f) =>
                  /\ f.width = display.width /\ f.height = display.height
                  /\ FailedWith(f, "CoordinateOutOfBounds")
                        <=> (x < 0 \/ x >= display.width \/ y < 0 \/ y >= display.height)

(* The previous request read another screen size, under which this         *)
(* request's coordinate would have been translated differently.            *)
C17_Witness ==
    \E s \in Sessions :
        /\ lastSize # NoSize
        /\ lastSize # <<display.width, display.height>>
        /\ Translated(h[s]) /\ BoundsChecked(h[s]) /\ Succeeded(h[s])
        /\ The(h[s].scaledCoordinate) #
              ScaleCoordinate(The(h[s].coordinate),
                              Inverse(getSizeToApiScale(lastSize[1], lastSize[2])))

(***************************************************************************)
(* strictSchemaWithAliases                                                 *)
(***************************************************************************)
Parsed == parse.pc = "done" /\ parse.args.isObject
AliasesIn(input) == KeysOf(input) \cap DOMAIN parse.aliases

(* C19: every alias key of the input is mapped to its canonical name       *)
(* before the strict validation, which rejects any key still unrecognized; *)
(* an alias's value is used only if the canonical key is not set, so when  *)
(* the input has both a canonical key and an alias of it, in either order, *)
(* the value validated under the canonical name is the canonical key's own.*)
C19_CanonicalValueWins ==
    Parsed =>
        LET input == parse.args.entries
            result == parse.result.entries
        IN  /\ KeysOf(result) = { CanonicalKey(parse.aliases, key) : key \in KeysOf(input) }
            /\ parse.success => KeysOf(result) \subseteq parse.shape.keys
            /\ \A alias \in AliasesIn(input) :
                  LET key == parse.aliases[alias]
                  IN  IF key \in KeysOf(input)
                      THEN ValueOf(result, key) = ValueOf(input, key)
                      ELSE ValueOf(result, key) = ValueOf(input, alias)

(***************************************************************************)
(* Concurrent requests                                                     *)
(***************************************************************************)
(* The request has had a native call answered and is awaiting another.     *)
MidRequest(f) == Awaiting(f) /\ (f.logicalWidth # 0 \/ f.calls # <<>>)

(* C11: requests are serialized against the shared native backend: the     *)
(* native calls of two requests delivered concurrently never interleave,   *)
(* so a click with a coordinate lands where its own request moved the      *)
(* pointer: no other request's move comes between the move and the click.  *)
C11_RequestsSerialized ==
    /\ \A a, b \in Sessions : a # b => ~(MidRequest(h[a]) /\ MidRequest(h[b]))
    /\ \A s \in Sessions :
          LET f == h[s]
          IN  (IsClick(f) /\ IsSome(f.coordinate) /\ Succeeded(f)) =>
                  f.calls = << Call("setPosition", The(f.scaledCoordinate)),
                               Call(ClickOpOf(f.action), The(f.scaledCoordinate)) >>

(***************************************************************************)
(* Coordinates the client takes from results                               *)
(***************************************************************************)
Echoes(f, kind) == f.action = "mouse_move" /\ IsSome(f.coordinate) /\ seen.kind = kind

(* C21: when the captured frame has the pixel size of the logical screen,  *)
(* every coordinate (x, y) with 0 <= x < image_width, 0 <= y < image_height *)
(* of the image get_screenshot reported is accepted by the bounds check of *)
(* a following request on the same screen size.                            *)
C21_ImageCoordinatesAccepted ==
    \A s \in Sessions :
        LET f == h[s]
            x == The(f.coordinate)[1]
            y == The(f.coordinate)[2]
        IN  (/\ Echoes(f, "screenshot") /\ display.ratio = 1
             /\ 0 <= x /\ x < seen.info[1] /\ 0 <= y /\ y < seen.info[2]) =>
                /\ ~FailedWith(f, "CoordinateOutOfBounds")
                /\ Succeeded(f) => InsideDisplay(pointer) /\ pointer = The(f.scaledCoordinate)

(* The last pixel of the 1568x656 image of a 3440x1440 screen is accepted. *)
C21_Witness ==
    \E s \in Sessions :
        /\ Echoes(h[s], "screenshot") /\ display.ratio = 1
        /\ seen.info = <<1568, 656>>
        /\ h[s].coordinate = Some(<<1567, 655>>)
        /\ Succeeded(h[s])
        /\ pointer = <<3438, 1437>>

(* C22: for every pointer position inside the logical screen, the (x, y)   *)
(* get_cursor_position returned, sent back unchanged as the coordinate of  *)
(* mouse_move on the same screen size, passes the bounds check and moves   *)
(* the pointer to within 1 pixel of the original position on each axis.    *)
C22_CursorPositionRoundTrip ==
    \A s \in Sessions :
        LET f == h[s]
        IN  (/\ Echoes(f, "position") /\ f.coordinate = Some(seen.info)
             /\ IsSome(seen.pos) /\ InsideDisplay(The(seen.pos))) =>
                /\ ~FailedWith(f, "CoordinateOutOfBounds")
                /\ \A k \in Moves(f) :
                      \A i \in 1..2 : Abs(f.calls[k].args[i] - The(seen.pos)[i]) <= 1

(***************************************************************************)
(* The display is reconfigured while a request is suspended                *)
(***************************************************************************)
(* C23: within one request the screen size from which the scale is derived *)
(* and the screen size used as the bounds of the translated coordinate are *)
(* the same, also when the screen size changes while the request is        *)
(* suspended between its reads of it.                                      *)
C23_OneSizePerRequest ==
    \A s \in Sessions :
        LET f == h[s]
        IN  /\ (IsSome(f.coordinate) /\ f.width # 0) => f.width = f.logicalWidth
            /\ BoundsChecked(f) => f.height = f.logicalHeight

(***************************************************************************)
(* left_click_drag                                                         *)
(***************************************************************************)
Ops(f) == [k \in 1..Len(f.calls) |-> f.calls[k].op]
DragOps == <<"pressButton", "setPosition", "releaseButton">>
ButtonHeld(f) ==
    \E k \in 1..Len(f.calls) :
        /\ f.calls[k].op = "pressButton"
        /\ \A j \in (k + 1)..Len(f.calls) : f.calls[j].op # "releaseButton"

(* C24: left_click_drag issues exactly press-left-button, set-position to  *)
(* the translated coordinate, release-left-button, in that order, and      *)
(* whenever the request returns, with success or with the error of a       *)
(* backend call, the left button is not left pressed.                      *)
C24_DragReleasesButton ==
    \A s \in Sessions :
        LET f == h[s]
        IN  f.action = "left_click_drag" =>
                /\ Len(f.calls) <= 3 /\ Ops(f) = SubSeq(DragOps, 1, Len(f.calls))
                /\ Len(f.calls) >= 2 => f.calls[2].args = The(f.scaledCoordinate)
                /\ Succeeded(f) => Ops(f) = DragOps
                /\ f.pc = "done" => ~ButtonHeld(f)

=============================================================================
